---- MODULE Spec2Model ----
(***************************************************************************)
(* Model of x509/pkcs7_models.py (pyx509): the extension registry and its  *)
(* critical / non-critical error policy, the assembly of Certificate and   *)
(* X509Certificate, distinguished names, the bit-string flag classes, date *)
(* parsing, and the certificate-level validity evaluation (time validity,  *)
(* revocation lookup, aggregate pass / fail), alone and interleaved with a *)
(* writer.                                                                 *)
(*                                                                         *)
(* Python values are represented as follows.                               *)
(*   - an optional value is a sequence of length at most one: None is <<>> *)
(*     and a present value x is <<x>>;                                     *)
(*   - a str is a sequence of one-character strings;                       *)
(*   - a datetime is the tuple <<year, month, day, hour, minute, second>>; *)
(*   - the three values a verification result can take are the strings     *)
(*     "True", "False" and "None";                                         *)
(*   - a dict is a function whose domain is its key set.                   *)
(***************************************************************************)
EXTENDS Integers, Sequences, FiniteSets, TLC

VARIABLES
    x509,       \* optional X509Certificate object (None until constructed)
    raised,     \* exception that left X509Certificate.__init__ ("none" if none)
    input,      \* optional decoded ASN.1 certificate handed to the constructor
    crl_cache,  \* the external CRL store: (issuer, serial) -> optional date string
    last,       \* the most recent call on the certificate and what it returned
    written     \* what the external verifier last assigned to verification_results

vars == <<x509, raised, input, crl_cache, last, written>>

----------------------------------------------------------------------------
(* Optional values *)

None == <<>>

Some(x) == <<x>>

----------------------------------------------------------------------------
(* Strings, int() and slices *)

\* the decimal digits, in order
Digits == <<"0", "1", "2", "3", "4", "5", "6", "7", "8", "9">>

DigitChars == {"0", "1", "2", "3", "4", "5", "6", "7", "8", "9"}

IsDigit(c) == c \in DigitChars

DigitVal(c) ==
    CASE c = "0" -> 0 [] c = "1" -> 1 [] c = "2" -> 2 [] c = "3" -> 3
      [] c = "4" -> 4 [] c = "5" -> 5 [] c = "6" -> 6 [] c = "7" -> 7
      [] c = "8" -> 8 [] OTHER -> 9

\* Python slice s[a:b] for 0 <= a <= b: never raises, truncates at len(s)
Slice(s, a, b) ==
    LET hi == IF b < Len(s) THEN b ELSE Len(s)
    IN  IF a >= hi THEN <<>> ELSE SubSeq(s, a + 1, hi)

\* value of the decimal digits s[1..n]
RECURSIVE DigitsVal(_, _)
DigitsVal(s, n) ==
    IF n = 0 THEN 0 ELSE 10 * DigitsVal(s, n - 1) + DigitVal(s[n])

AllDigits(s) == Len(s) > 0 /\ \A i \in 1..Len(s) : IsDigit(s[i])

RECURSIVE LStrip(_)
LStrip(s) == IF Len(s) > 0 /\ s[1] = " " THEN LStrip(Tail(s)) ELSE s

RECURSIVE RStrip(_)
RStrip(s) ==
    IF Len(s) > 0 /\ s[Len(s)] = " " THEN RStrip(SubSeq(s, 1, Len(s) - 1)) ELSE s

\* int() of a string with blanks around it or a sign in front
PyIntSigned(t) ==
    IF Len(t) > 0 /\ t[1] \in {"+", "-"} /\ AllDigits(Tail(t))
    THEN [err |-> "none",
          val |-> IF t[1] = "-" THEN 0 - DigitsVal(Tail(t), Len(t) - 1)
                  ELSE DigitsVal(Tail(t), Len(t) - 1)]
    ELSE IF AllDigits(t) THEN [err |-> "none", val |-> DigitsVal(t, Len(t))]
    ELSE [err |-> "ValueError", val |-> 0]

\* Python int(str): surrounding blanks stripped, one optional sign, then one
\* or more decimal digits; anything else is a ValueError
PyInt(s) ==
    IF AllDigits(s) THEN [err |-> "none", val |-> DigitsVal(s, Len(s))]
    ELSE PyIntSigned(RStrip(LStrip(s)))

\* "%02d" and "%04d" of a natural number, used to write the input date strings
Fmt2(n) == <<Digits[((n \div 10) % 10) + 1], Digits[(n % 10) + 1]>>

Fmt4(n) == Fmt2(n \div 100) \o Fmt2(n % 100)

----------------------------------------------------------------------------
(* datetime *)

IsLeap(y) == (y % 4 = 0 /\ y % 100 # 0) \/ y % 400 = 0

DaysInMonth(y, m) ==
    IF m = 2 THEN (IF IsLeap(y) THEN 29 ELSE 28)
    ELSE IF m \in {4, 6, 9, 11} THEN 30 ELSE 31

\* datetime.datetime(year, month, day, hour, minute, second): ValueError when a
\* field is out of range
Datetime(year, month, day, hour, minute, second) ==
    IF /\ year \in 1..9999
       /\ month \in 1..12
       /\ day >= 1 /\ day <= DaysInMonth(year, month)
       /\ hour \in 0..23
       /\ minute \in 0..59
       /\ second \in 0..59
    THEN [err |-> "none", dt |-> <<year, month, day, hour, minute, second>>]
    ELSE [err |-> "ValueError", dt |-> <<>>]

\* datetime ordering: field by field, most significant first
RECURSIVE DtLess(_, _)
DtLess(a, b) ==
    IF Len(a) = 0 \/ Len(b) = 0 THEN FALSE
    ELSE IF a[1] # b[1] THEN a[1] < b[1]
    ELSE DtLess(Tail(a), Tail(b))

DtGeq(a, b) == ~DtLess(a, b)

----------------------------------------------------------------------------
(* ValidityInterval *)

\* A Time component: the CHOICE name and the string it carries
TimeComponent(name, value) == [name |-> name, value |-> value]

\* _getGeneralizedTime with "shortyear > 50" for "shortyear >= 50"
_getGeneralizedTime_Above50(timeComponent) ==
    IF timeComponent.name = "generalTime"
    THEN [err |-> "none", val |-> timeComponent.value]
    ELSE LET timeValue == timeComponent.value
             shortyear == PyInt(Slice(timeValue, 0, 2))
         IN  IF shortyear.err # "none"
             THEN [err |-> shortyear.err, val |-> <<>>]
             ELSE [err |-> "none",
                   val |-> (IF shortyear.val > 50 THEN <<"1", "9">>
                            ELSE <<"2", "0">>) \o timeValue]

\* ValidityInterval._getGeneralizedTime
_getGeneralizedTime(timeComponent) ==
    IF timeComponent.name = "generalTime"
    THEN [err |-> "none", val |-> timeComponent.value]
    ELSE LET timeValue == timeComponent.value
             shortyear == PyInt(Slice(timeValue, 0, 2))
         IN  IF shortyear.err # "none"
             THEN [err |-> shortyear.err, val |-> <<>>]
             ELSE [err |-> "none",
                   val |-> (IF shortyear.val >= 50 THEN <<"1", "9">>
                            ELSE <<"2", "0">>) \o timeValue]

\* parse_date without "if second>59: second = 59"
parse_date_NoClamp(date) ==
    LET year == PyInt(Slice(date, 0, 4))
        month == PyInt(Slice(date, 4, 6))
        day == PyInt(Slice(date, 6, 8))
        hour == PyInt(Slice(date, 8, 10))
        minute == PyInt(Slice(date, 10, 12))
        sec == PyInt(Slice(date, 12, 14))
        second == IF sec.err # "none" THEN 0 ELSE sec.val
    IN  IF \E c \in {year, month, day, hour, minute} : c.err # "none"
        THEN [err |-> "ValueError", dt |-> <<>>]
        ELSE Datetime(year.val, month.val, day.val, hour.val, minute.val, second)

\* parse_date that reads the minute the way it reads the second
parse_date_DefaultsMinute(date) ==
    LET year == PyInt(Slice(date, 0, 4))
        month == PyInt(Slice(date, 4, 6))
        day == PyInt(Slice(date, 6, 8))
        hour == PyInt(Slice(date, 8, 10))
        min == PyInt(Slice(date, 10, 12))
        minute == IF min.err # "none" THEN 0 ELSE min.val
        sec == PyInt(Slice(date, 12, 14))
        second == IF sec.err # "none" THEN 0 ELSE sec.val
        clamped == IF second > 59 THEN 59 ELSE second
    IN  IF \E c \in {year, month, day, hour} : c.err # "none"
        THEN [err |-> "ValueError", dt |-> <<>>]
        ELSE Datetime(year.val, month.val, day.val, hour.val, minute, clamped)

\* ValidityInterval.parse_date
parse_date(date) ==
    LET year == PyInt(Slice(date, 0, 4))
        month == PyInt(Slice(date, 4, 6))
        day == PyInt(Slice(date, 6, 8))
        hour == PyInt(Slice(date, 8, 10))
        minute == PyInt(Slice(date, 10, 12))
        sec == PyInt(Slice(date, 12, 14))
        second == IF sec.err # "none" THEN 0 ELSE sec.val
        clamped == IF second > 59 THEN 59 ELSE second
    IN  IF \E c \in {year, month, day, hour, minute} : c.err # "none"
        THEN [err |-> "ValueError", dt |-> <<>>]
        ELSE Datetime(year.val, month.val, day.val, hour.val, minute.val, clamped)

ValidityInterval_init(validity) ==
    LET vf == _getGeneralizedTime(validity.notBefore)
        vt == _getGeneralizedTime(validity.notAfter)
    IN  IF vf.err # "none" THEN [err |-> vf.err, obj |-> None]
        ELSE IF vt.err # "none" THEN [err |-> vt.err, obj |-> None]
        ELSE [err |-> "none",
              obj |-> Some([valid_from |-> vf.val, valid_to |-> vt.val])]

get_valid_from_as_datetime(validity) == parse_date(validity.valid_from)

get_valid_to_as_datetime(validity) == parse_date(validity.valid_to)

----------------------------------------------------------------------------
(* Name *)

\* the printable characters in code point order, from the blank (32) to the
\* tilde (126), without the double quote, the backslash and the backquote
Ascii ==
    <<" ", "!", "#", "$", "%", "&", "'", "(", ")", "*", "+",
      ",", "-", ".", "/", "0", "1", "2", "3", "4", "5", "6", "7",
      "8", "9", ":", ";", "<", "=", ">", "?", "@", "A", "B", "C",
      "D", "E", "F", "G", "H", "I", "J", "K", "L", "M", "N", "O",
      "P", "Q", "R", "S", "T", "U", "V", "W", "X", "Y", "Z", "[",
      "]", "^", "_", "a", "b", "c", "d", "e", "f", "g",
      "h", "i", "j", "k", "l", "m", "n", "o", "p", "q", "r", "s",
      "t", "u", "v", "w", "x", "y", "z", "{", "|", "}", "~">>

\* the rank of a character in code point order
Ord(c) == CHOOSE i \in 1..Len(Ascii) : Ascii[i] = c

\* str < str: by code point, a proper prefix first
RECURSIVE StrLess(_, _)
StrLess(a, b) ==
    IF Len(b) = 0 THEN FALSE
    ELSE IF Len(a) = 0 THEN TRUE
    ELSE IF a[1] # b[1] THEN Ord(a[1]) < Ord(b[1])
    ELSE StrLess(Tail(a), Tail(b))

\* a sorted list with one more element put in its place
RECURSIVE Insert(_, _)
Insert(sorted, x) ==
    IF Len(sorted) = 0 THEN <<x>>
    ELSE IF StrLess(x, Head(sorted)) THEN <<x>> \o sorted
    ELSE <<Head(sorted)>> \o Insert(Tail(sorted), x)

\* sorted(list)
RECURSIVE Sorted(_)
Sorted(list) ==
    IF Len(list) = 0 THEN <<>> ELSE Insert(Sorted(Tail(list)), Head(list))

\* sorted(dict.keys())
RECURSIVE SortedKeys(_)
SortedKeys(keys) ==
    IF keys = {} THEN <<>>
    ELSE LET least == CHOOSE k \in keys : \A o \in keys : ~StrLess(o, k)
         IN  <<least>> \o SortedKeys(keys \ {least})

\* ", ".join(strings)
RECURSIVE Join(_)
Join(strings) ==
    IF Len(strings) = 0 THEN <<>>
    ELSE IF Len(strings) = 1 THEN strings[1]
    ELSE strings[1] \o <<",", " ">> \o Join(Tail(strings))

\* Name._oid2Name
_oid2Name ==
    (<<"2", ".", "5", ".", "4", ".", "3">> :> <<"C", "N">>) @@
    (<<"2", ".", "5", ".", "4", ".", "6">> :> <<"C">>) @@
    (<<"2", ".", "5", ".", "4", ".", "7">> :> <<"L">>) @@
    (<<"2", ".", "5", ".", "4", ".", "8">> :> <<"S", "T">>) @@
    (<<"2", ".", "5", ".", "4", ".", "1", "0">> :> <<"O">>) @@
    (<<"2", ".", "5", ".", "4", ".", "1", "1">> :> <<"O", "U">>) @@
    (<<"2", ".", "5", ".", "4", ".", "4", "5">> :> <<"X", "5", "0", "0", "U", "I", "D">>) @@
    (<<"1", ".", "2", ".", "8", "4", "0", ".", "1", "1", "3", "5", "4", "9", ".", "1", ".", "9", ".", "1">> :> <<"e", "m", "a", "i", "l">>) @@
    (<<"2", ".", "5", ".", "4", ".", "1", "7">> :> <<"z", "i", "p">>) @@
    (<<"2", ".", "5", ".", "4", ".", "9">> :> <<"s", "t", "r", "e", "e", "t">>) @@
    (<<"2", ".", "5", ".", "4", ".", "1", "5">> :> <<"b", "u", "s", "i", "n", "e", "s", "s", "C", "a", "t", "e", "g", "o", "r", "y">>) @@
    (<<"2", ".", "5", ".", "4", ".", "5">> :> <<"s", "e", "r", "i", "a", "l", "N", "u", "m", "b", "e", "r">>) @@
    (<<"2", ".", "5", ".", "4", ".", "4", "3">> :> <<"i", "n", "i", "t", "i", "a", "l", "s">>) @@
    (<<"2", ".", "5", ".", "4", ".", "4", "4">> :> <<"g", "e", "n", "e", "r", "a", "t", "i", "o", "n", "Q", "u", "a", "l", "i", "f", "i", "e", "r">>) @@
    (<<"2", ".", "5", ".", "4", ".", "4">> :> <<"s", "u", "r", "n", "a", "m", "e">>) @@
    (<<"2", ".", "5", ".", "4", ".", "4", "2">> :> <<"g", "i", "v", "e", "n", "N", "a", "m", "e">>) @@
    (<<"2", ".", "5", ".", "4", ".", "1", "2">> :> <<"t", "i", "t", "l", "e">>) @@
    (<<"2", ".", "5", ".", "4", ".", "4", "6">> :> <<"d", "n", "Q", "u", "a", "l", "i", "f", "i", "e", "r">>) @@
    (<<"2", ".", "5", ".", "4", ".", "6", "5">> :> <<"p", "s", "e", "u", "d", "o", "n", "y", "m">>) @@
    (<<"0", ".", "9", ".", "2", "3", "4", "2", ".", "1", "9", "2", "0", "0", "3", "0", "0", ".", "1", "0", "0", ".", "1", ".", "2", "5">> :> <<"D", "C">>) @@
    (<<"1", ".", "3", ".", "6", ".", "1", ".", "4", ".", "1", ".", "5", "7", "3", "4", ".", "1", ".", "2">> :> <<"A", "p", "e", "l", "l", "i", "d", "o", "1">>) @@
    (<<"1", ".", "3", ".", "6", ".", "1", ".", "4", ".", "1", ".", "5", "7", "3", "4", ".", "1", ".", "3">> :> <<"A", "p", "e", "l", "l", "i", "d", "o", "2">>) @@
    (<<"1", ".", "3", ".", "6", ".", "1", ".", "4", ".", "1", ".", "5", "7", "3", "4", ".", "1", ".", "1">> :> <<"N", "o", "m", "b", "r", "e">>) @@
    (<<"1", ".", "3", ".", "6", ".", "1", ".", "4", ".", "1", ".", "5", "7", "3", "4", ".", "1", ".", "4">> :> <<"D", "N", "I">>) @@
    (<<"0", ".", "9", ".", "2", "3", "4", "2", ".", "1", "9", "2", "0", "0", "3", "0", "0", ".", "1", "0", "0", ".", "1", ".", "1">> :> <<"U", "s", "e", "r", "i", "d">>)

\* one pass of the inner loop: the attribute at position 0 of attr is put
\* under its type name, after the values already there
AddAttribute(attributes, attr) ==
    LET type == attr[1].type
        value == attr[1].value
        typeStr == IF type \in DOMAIN _oid2Name THEN _oid2Name[type] ELSE type
    IN  IF typeStr \in DOMAIN attributes
        THEN [attributes EXCEPT ![typeStr] = Append(@, value)]
        ELSE [k \in (DOMAIN attributes) \cup {typeStr} |->
                 IF k = typeStr THEN <<value>> ELSE attributes[k]]

\* for attr in name_part: ...
RECURSIVE AddNamePart(_, _)
AddNamePart(attributes, name_part) ==
    IF Len(name_part) = 0 THEN attributes
    ELSE AddNamePart(AddAttribute(attributes, Head(name_part)), Tail(name_part))

\* for name_part in name: ...
RECURSIVE AddNameParts(_, _)
AddNameParts(attributes, name) ==
    IF Len(name) = 0 THEN attributes
    ELSE AddNameParts(AddNamePart(attributes, Head(name)), Tail(name))

\* Name.__init__: the dict __attributes
Name_init(name) == AddNameParts(<<>>, name)

\* ", ".join(["%s=%s" % (key, value) for value in values])
KeyValues(key, values) ==
    Join([i \in 1..Len(values) |-> key \o <<"=">> \o values[i]])

\* Name.__str__
Name_str(attributes) ==
    LET keys == SortedKeys(DOMAIN attributes)
    IN  Join([i \in 1..Len(keys) |-> KeyValues(keys[i], Sorted(attributes[keys[i]]))])

----------------------------------------------------------------------------
(* Bit-string flags: KeyUsageExt and Reasons *)

\* bits[i] on a tuple, i counted from 0
BitAt(bits, i) ==
    IF i < Len(bits) THEN [err |-> "none", val |-> bits[i + 1]]
    ELSE [err |-> "IndexError", val |-> 0]

\* the chain "if (bits[i]): self.<names[i]> = True" from position i on: the
\* exception that ends it ("none" when it runs to the end) and the flags
RECURSIVE ReadBits(_, _, _, _)
ReadBits(flags, names, bits, i) ==
    IF i >= Len(names) THEN [err |-> "none", flags |-> flags]
    ELSE LET bit == BitAt(bits, i)
         IN  IF bit.err # "none" THEN [err |-> bit.err, flags |-> flags]
             ELSE ReadBits(IF bit.val # 0
                           THEN [flags EXCEPT ![names[i + 1]] = TRUE]
                           ELSE flags,
                           names, bits, i + 1)

\* the flags of a class, all False
Cleared(names) == [n \in {names[i] : i \in 1..Len(names)} |-> FALSE]

\* the attributes of KeyUsageExt in bit order
KeyUsageFlags ==
    <<"digitalSignature", "nonRepudiation", "keyEncipherment",
      "dataEncipherment", "keyAgreement", "keyCertSign", "cRLSign",
      "encipherOnly", "decipherOnly">>

\* KeyUsageExt.__init__ without "except IndexError: return"
KeyUsageExt_init_Unguarded(asn1) ==
    ReadBits(Cleared(KeyUsageFlags), KeyUsageFlags, asn1, 0)

\* KeyUsageExt.__init__: "except IndexError: return" ends the constructor
\* normally with the flags set so far
KeyUsageExt_init(asn1) ==
    LET read == ReadBits(Cleared(KeyUsageFlags), KeyUsageFlags, asn1, 0)
    IN  IF read.err = "IndexError" THEN [err |-> "none", flags |-> read.flags]
        ELSE read

\* the attributes of Reasons in bit order
ReasonsFlags ==
    <<"unused", "keyCompromise", "cACompromise", "affiliationChanged",
      "superseded", "cessationOfOperation", "certificateHold",
      "privilegeWithdrawn", "aACompromise">>

\* Reasons.__init__
Reasons_init(asn1) ==
    LET read == ReadBits(Cleared(ReasonsFlags), ReasonsFlags, asn1, 0)
    IN  IF read.err = "IndexError" THEN [err |-> "none", flags |-> read.flags]
        ELSE read

----------------------------------------------------------------------------
(* Extension registry and dispatch *)

\* ExtensionTypes.knownExtensions: the values of the ExtensionType "enum"
knownExtensions ==
    {"subjAltNameExt", "authKeyIdExt", "subjKeyIdExt", "basicConstraintsExt",
     "keyUsageExt", "extKeyUsageExt", "certPoliciesExt", "crlDistPointsExt",
     "statemetsExt", "authInfoAccessExt", "policyConstraintsExt",
     "nameConstraintsExt", "netscapeCertTypeExt",
     "appleSubmissionCertificateExt", "appleDevelopmentCertificateExt",
     "macApplicationSoftwareDevelopmentSigningExt",
     "macApplicationSoftwareSubmissionSigningExt"}

\* Extension._extensionDecoders: OID -> (ASN1Spec, attributeName); the
\* conversion function of an entry is the parser of that extension kind
_extensionDecoders ==
    ("2.5.29.17" :> [spec |-> "GeneralNames", extType |-> "subjAltNameExt"]) @@
    ("2.5.29.35" :> [spec |-> "KeyId", extType |-> "authKeyIdExt"]) @@
    ("2.5.29.14" :> [spec |-> "SubjectKeyId", extType |-> "subjKeyIdExt"]) @@
    ("2.5.29.19" :> [spec |-> "BasicConstraints", extType |-> "basicConstraintsExt"]) @@
    ("2.5.29.15" :> [spec |-> "None", extType |-> "keyUsageExt"]) @@
    ("2.5.29.32" :> [spec |-> "CertificatePolicies", extType |-> "certPoliciesExt"]) @@
    ("2.5.29.31" :> [spec |-> "CRLDistributionPoints", extType |-> "crlDistPointsExt"]) @@
    ("1.3.6.1.5.5.7.1.3" :> [spec |-> "Statements", extType |-> "statemetsExt"]) @@
    ("1.3.6.1.5.5.7.1.1" :> [spec |-> "AuthorityInfoAccess", extType |-> "authInfoAccessExt"]) @@
    ("2.5.29.37" :> [spec |-> "ExtendedKeyUsage", extType |-> "extKeyUsageExt"]) @@
    ("2.5.29.36" :> [spec |-> "PolicyConstraints", extType |-> "policyConstraintsExt"]) @@
    ("2.5.29.30" :> [spec |-> "NameConstraints", extType |-> "nameConstraintsExt"]) @@
    ("2.16.840.1.113730.1.1" :> [spec |-> "NetscapeCertType", extType |-> "netscapeCertTypeExt"]) @@
    ("1.2.840.113635.100.6.1.4" :> [spec |-> "None", extType |-> "appleSubmissionCertificateExt"]) @@
    ("1.2.840.113635.100.6.1.2" :> [spec |-> "None", extType |-> "appleDevelopmentCertificateExt"]) @@
    ("1.2.840.113635.100.6.1.12" :> [spec |-> "None", extType |-> "macApplicationSoftwareDevelopmentSigningExt"]) @@
    ("1.2.840.113635.100.6.1.7" :> [spec |-> "None", extType |-> "macApplicationSoftwareSubmissionSigningExt"])

\* What the bytes of an extnValue do when they are decoded against the
\* registered schema and handed to the registered parser:
\*   "wellformed"   decode and parse both return
\*   "undecodable"  decode raises PyAsn1Error
\*   "unparsable"   decode returns, the parser raises PyAsn1Error
\*   "mistyped"     decode returns, the parser raises an exception that is not
\*                  a PyAsn1Error (TypeError, AttributeError, ...)
Payloads == {"wellformed", "undecodable", "unparsable", "mistyped"}

\* decode(value, asn1Spec=...)[0] followed by decoderFunction(v): the
\* exception the pair raises on these bytes, "none" when both return
decode_and_convert(extnValue) ==
    CASE extnValue = "wellformed" -> "none"
      [] extnValue = "undecodable" -> "PyAsn1Error"
      [] extnValue = "unparsable" -> "PyAsn1Error"
      [] OTHER -> "TypeError"

\* Extension.__init__ without the "elif self.is_critical: raise" branch
Extension_init_AcceptsUnknownCritical(extension) ==
    LET id == extension.extnID
        is_critical == (extension.critical # 0)
        raw == [id |-> id, is_critical |-> is_critical, ext_type |-> "None",
                value |-> [typed |-> FALSE, bytes |-> extension.extnValue]]
    IN  IF id \in DOMAIN _extensionDecoders
        THEN LET exc == decode_and_convert(extension.extnValue)
             IN  IF exc = "none"
                 THEN [err |-> "none",
                       obj |-> [raw EXCEPT !.value.typed = TRUE,
                                           !.ext_type = _extensionDecoders[id].extType]]
                 ELSE IF exc = "PyAsn1Error"
                 THEN [err |-> IF is_critical THEN "PyAsn1Error" ELSE "none",
                       obj |-> raw]
                 ELSE [err |-> exc, obj |-> raw]
        ELSE [err |-> "none", obj |-> raw]

\* Extension.__init__: the exception raised ("none" if construction returns)
\* and the fields of the object at that moment
Extension_init(extension) ==
    LET id == extension.extnID
        is_critical == (extension.critical # 0)
        raw == [id |-> id, is_critical |-> is_critical, ext_type |-> "None",
                value |-> [typed |-> FALSE, bytes |-> extension.extnValue]]
    IN  IF id \in DOMAIN _extensionDecoders
        THEN LET exc == decode_and_convert(extension.extnValue)
             IN  IF exc = "none"
                 THEN [err |-> "none",
                       obj |-> [raw EXCEPT !.value.typed = TRUE,
                                           !.ext_type = _extensionDecoders[id].extType]]
                 ELSE IF exc = "PyAsn1Error"
                 THEN [err |-> IF is_critical THEN "PyAsn1Error" ELSE "none",
                       obj |-> raw]
                 ELSE [err |-> exc, obj |-> raw]
        ELSE IF is_critical
        THEN [err |-> "CertificateError", obj |-> raw]
        ELSE [err |-> "none", obj |-> raw]

----------------------------------------------------------------------------
(* Certificate and X509Certificate assembly *)

\* [Extension(ext) for ext in extensions]: the first exception ends the loop
RECURSIVE ExtensionList(_, _)
ExtensionList(extensions, built) ==
    IF Len(extensions) = 0 THEN [err |-> "none", list |-> built]
    ELSE LET e == Extension_init(Head(extensions))
         IN  IF e.err # "none" THEN [err |-> e.err, list |-> <<>>]
             ELSE ExtensionList(Tail(extensions), Append(built, e.obj))

\* a list built by a loop that drops the extensions whose construction raises
RECURSIVE ExtensionListSkipping(_, _)
ExtensionListSkipping(extensions, built) ==
    IF Len(extensions) = 0 THEN [err |-> "none", list |-> built]
    ELSE LET e == Extension_init(Head(extensions))
         IN  ExtensionListSkipping(Tail(extensions),
                                   IF e.err # "none" THEN built
                                   ELSE Append(built, e.obj))

_create_extensions_list_SkipsFailures(extensions) ==
    IF extensions = None THEN [err |-> "none", list |-> <<>>]
    ELSE ExtensionListSkipping(extensions[1], <<>>)

_create_extensions_list(extensions) ==
    IF extensions = None THEN [err |-> "none", list |-> <<>>]
    ELSE ExtensionList(extensions[1], <<>>)

\* for ext in self.extensions: if ext.ext_type: setattr(self, ext.ext_type, ext)
RECURSIVE SetSlots(_, _)
SetSlots(slots, extensions) ==
    IF Len(extensions) = 0 THEN slots
    ELSE LET ext == Head(extensions)
         IN  SetSlots(IF ext.ext_type # "None"
                      THEN [slots EXCEPT ![ext.ext_type] = Some(ext)]
                      ELSE slots,
                      Tail(extensions))

\* the slot loop with "if ext.ext_type and getattr(self, ext.ext_type) is None"
RECURSIVE SetSlotsOnce(_, _)
SetSlotsOnce(slots, extensions) ==
    IF Len(extensions) = 0 THEN slots
    ELSE LET ext == Head(extensions)
         IN  SetSlotsOnce(IF ext.ext_type # "None" /\ slots[ext.ext_type] = None
                          THEN [slots EXCEPT ![ext.ext_type] = Some(ext)]
                          ELSE slots,
                          Tail(extensions))

\* Certificate.__init__ whose slots keep the first extension of a kind
Certificate_init_FirstWins(tbsCertificate) ==
    LET validity == ValidityInterval_init(tbsCertificate.validity)
        exts == _create_extensions_list(tbsCertificate.extensions)
    IN  IF validity.err # "none" THEN [err |-> validity.err, obj |-> None]
        ELSE IF exts.err # "none" THEN [err |-> exts.err, obj |-> None]
        ELSE [err |-> "none",
              obj |-> Some([serial_number |-> tbsCertificate.serialNumber,
                            issuer |-> tbsCertificate.issuer,
                            validity |-> validity.obj[1],
                            extensions |-> exts.list,
                            slots |-> SetSlotsOnce([n \in knownExtensions |-> None],
                                                   exts.list)])]

\* Certificate.__init__
Certificate_init(tbsCertificate) ==
    LET validity == ValidityInterval_init(tbsCertificate.validity)
        exts == _create_extensions_list(tbsCertificate.extensions)
    IN  IF validity.err # "none" THEN [err |-> validity.err, obj |-> None]
        ELSE IF exts.err # "none" THEN [err |-> exts.err, obj |-> None]
        ELSE [err |-> "none",
              obj |-> Some([serial_number |-> tbsCertificate.serialNumber,
                            issuer |-> tbsCertificate.issuer,
                            validity |-> validity.obj[1],
                            extensions |-> exts.list,
                            slots |-> SetSlots([n \in knownExtensions |-> None],
                                               exts.list)])]

\* X509Certificate.__init__
X509Certificate_init(certificate) ==
    LET tbs == Certificate_init(certificate.tbsCertificate)
    IN  IF tbs.err # "none" THEN [err |-> tbs.err, obj |-> None]
        ELSE [err |-> "none",
              obj |-> Some([tbsCertificate |-> tbs.obj[1],
                            verification_results |-> None,
                            check_crl |-> TRUE])]

----------------------------------------------------------------------------
(* Validity evaluation *)

PyBool(b) == IF b THEN "True" ELSE "False"

\* d[key] = value on a dict
DictSet(d, key, value) ==
    [k \in (DOMAIN d) \cup {key} |-> IF k = key THEN value ELSE d[k]]

\* CRL_cache_manager.get_cache().certificate_rev_date(issuer, serial)
certificate_rev_date(cache, issuer, serial) == cache[<<issuer, serial>>]

\* X509Certificate.get_revocation_date: optional datetime
get_revocation_date(self, cache) ==
    LET rev_date == certificate_rev_date(cache, self.tbsCertificate.issuer,
                                         self.tbsCertificate.serial_number)
    IN  IF rev_date = None \/ rev_date = Some(<<>>)
        THEN [err |-> "none", val |-> None]
        ELSE LET parsed == parse_date(rev_date[1])
             IN  IF parsed.err # "none" THEN [err |-> parsed.err, val |-> None]
                 ELSE [err |-> "none", val |-> Some(parsed.dt)]

\* crl_validity_at_date that answers None when the store has no date
crl_validity_at_date_UnsetWhenNotFound(self, cache, date) ==
    LET rev_date == get_revocation_date(self, cache)
    IN  IF rev_date.err # "none"
        THEN [err |-> rev_date.err, val |-> "None", lookups |-> 1]
        ELSE IF rev_date.val = None
        THEN [err |-> "none", val |-> "None", lookups |-> 1]
        ELSE IF DtGeq(date, rev_date.val[1])
        THEN [err |-> "none", val |-> "False", lookups |-> 1]
        ELSE [err |-> "none", val |-> "True", lookups |-> 1]

\* crl_validity_at_date with "date > rev_date" for "date >= rev_date"
crl_validity_at_date_After(self, cache, date) ==
    LET rev_date == get_revocation_date(self, cache)
    IN  IF rev_date.err # "none"
        THEN [err |-> rev_date.err, val |-> "None", lookups |-> 1]
        ELSE IF rev_date.val = None
        THEN [err |-> "none", val |-> "True", lookups |-> 1]
        ELSE IF DtLess(rev_date.val[1], date)
        THEN [err |-> "none", val |-> "False", lookups |-> 1]
        ELSE [err |-> "none", val |-> "True", lookups |-> 1]

\* X509Certificate.crl_validity_at_date; every call looks the store up once
crl_validity_at_date(self, cache, date) ==
    LET rev_date == get_revocation_date(self, cache)
    IN  IF rev_date.err # "none"
        THEN [err |-> rev_date.err, val |-> "None", lookups |-> 1]
        ELSE IF rev_date.val = None
        THEN [err |-> "none", val |-> "True", lookups |-> 1]
        ELSE IF DtGeq(date, rev_date.val[1])
        THEN [err |-> "none", val |-> "False", lookups |-> 1]
        ELSE [err |-> "none", val |-> "True", lookups |-> 1]

\* time_validity_at_date with "to_date > date" for "to_date >= date"
time_validity_at_date_Exclusive(self, date) ==
    LET from_date == get_valid_from_as_datetime(self.tbsCertificate.validity)
        to_date == get_valid_to_as_datetime(self.tbsCertificate.validity)
    IN  IF from_date.err # "none" THEN [err |-> from_date.err, val |-> "None"]
        ELSE IF to_date.err # "none" THEN [err |-> to_date.err, val |-> "None"]
        ELSE [err |-> "none",
              val |-> PyBool(DtLess(date, to_date.dt) /\ DtGeq(date, from_date.dt))]

\* X509Certificate.time_validity_at_date
time_validity_at_date(self, date) ==
    LET from_date == get_valid_from_as_datetime(self.tbsCertificate.validity)
        to_date == get_valid_to_as_datetime(self.tbsCertificate.validity)
    IN  IF from_date.err # "none" THEN [err |-> from_date.err, val |-> "None"]
        ELSE IF to_date.err # "none" THEN [err |-> to_date.err, val |-> "None"]
        ELSE [err |-> "none",
              val |-> PyBool(DtGeq(to_date.dt, date) /\ DtGeq(date, from_date.dt))]

\* the body of verification_results_at_date with its choices made explicit:
\*   base     the dict the results start from
\*   lookup   whether the store is asked
\*   aliased  whether the results are the object's own dict (no copy made)
ResultsAtDate(self, cache, date, base, lookup, aliased) ==
    LET time_ok == time_validity_at_date(self, date)
        crl_ok == crl_validity_at_date(self, cache, date)
        timed == DictSet(base, "CERT_TIME_VALIDITY_OK", time_ok.val)
        looked == DictSet(timed, "CERT_NOT_REVOKED", crl_ok.val)
        unset == DictSet(timed, "CERT_NOT_REVOKED", "None")
    IN  IF time_ok.err # "none"
        THEN [err |-> time_ok.err, val |-> None, lookups |-> 0,
              field |-> self.verification_results]
        ELSE IF lookup /\ crl_ok.err # "none"
        THEN [err |-> crl_ok.err, val |-> None, lookups |-> crl_ok.lookups,
              field |-> IF aliased THEN Some(timed) ELSE self.verification_results]
        ELSE IF lookup
        THEN [err |-> "none",
              val |-> Some(IF self.check_crl THEN looked ELSE unset),
              lookups |-> crl_ok.lookups,
              field |-> IF aliased THEN Some(IF self.check_crl THEN looked ELSE unset)
                        ELSE self.verification_results]
        ELSE [err |-> "none", val |-> Some(unset), lookups |-> 0,
              field |-> IF aliased THEN Some(unset) ELSE self.verification_results]

\* verification_results_at_date that asks the store whatever check_crl says
verification_results_at_date_AlwaysLooksUp(self, cache, date) ==
    IF self.verification_results = None
    THEN [err |-> "none", val |-> None, lookups |-> 0,
          field |-> self.verification_results]
    ELSE ResultsAtDate(self, cache, date, self.verification_results[1], TRUE, FALSE)

\* verification_results_at_date with "results = self.verification_results"
\* for "results = dict(self.verification_results)"
verification_results_at_date_NoCopy(self, cache, date) ==
    IF self.verification_results = None
    THEN [err |-> "none", val |-> None, lookups |-> 0,
          field |-> self.verification_results]
    ELSE ResultsAtDate(self, cache, date, self.verification_results[1],
                       self.check_crl, TRUE)

\* verification_results_at_date with "results = {}" for the copy
verification_results_at_date_FreshDict(self, cache, date) ==
    IF self.verification_results = None
    THEN [err |-> "none", val |-> None, lookups |-> 0,
          field |-> self.verification_results]
    ELSE ResultsAtDate(self, cache, date, <<>>, self.check_crl, FALSE)

\* verification_results_at_date that replaces an absent verification_results
\* by an empty dict before it returns None
verification_results_at_date_LazyInit(self, cache, date) ==
    IF self.verification_results = None
    THEN [err |-> "none", val |-> None, lookups |-> 0, field |-> Some(<<>>)]
    ELSE ResultsAtDate(self, cache, date, self.verification_results[1],
                       self.check_crl, FALSE)

\* verification_results_at_date with "results["CERT_NOT_REVOKED"] = True" in
\* the else branch of "if self.check_crl"
verification_results_at_date_TrueWhenUnchecked(self, cache, date) ==
    IF self.verification_results = None
    THEN [err |-> "none", val |-> None, lookups |-> 0,
          field |-> self.verification_results]
    ELSE LET r == ResultsAtDate(self, cache, date, self.verification_results[1],
                                self.check_crl, FALSE)
         IN  IF self.check_crl \/ r.err # "none" THEN r
             ELSE [r EXCEPT !.val = Some(DictSet(@[1], "CERT_NOT_REVOKED", "True"))]

\* X509Certificate.verification_results_at_date: the returned map (optional),
\* the number of store lookups made, and the object's verification_results
\* after the call
verification_results_at_date(self, cache, date) ==
    IF self.verification_results = None
    THEN [err |-> "none", val |-> None, lookups |-> 0,
          field |-> self.verification_results]
    ELSE LET results == self.verification_results[1]
             time_ok == time_validity_at_date(self, date)
             crl_ok == crl_validity_at_date(self, cache, date)
         IN  IF time_ok.err # "none"
             THEN [err |-> time_ok.err, val |-> None, lookups |-> 0,
                   field |-> self.verification_results]
             ELSE LET timed == DictSet(results, "CERT_TIME_VALIDITY_OK", time_ok.val)
                  IN  IF self.check_crl
                      THEN IF crl_ok.err # "none"
                           THEN [err |-> crl_ok.err, val |-> None,
                                 lookups |-> crl_ok.lookups,
                                 field |-> self.verification_results]
                           ELSE [err |-> "none",
                                 val |-> Some(DictSet(timed, "CERT_NOT_REVOKED",
                                                      crl_ok.val)),
                                 lookups |-> crl_ok.lookups,
                                 field |-> self.verification_results]
                      ELSE [err |-> "none",
                            val |-> Some(DictSet(timed, "CERT_NOT_REVOKED", "None")),
                            lookups |-> 0,
                            field |-> self.verification_results]

\* the loop of _evaluate_verification_results over the items not yet visited
RECURSIVE EvaluateItems(_, _, _)
EvaluateItems(results, keys, ignore_missing_crl_check) ==
    IF keys = {} THEN TRUE
    ELSE LET key == CHOOSE k \in keys : TRUE
             value == results[key]
         IN  IF value = "True"
             THEN EvaluateItems(results, keys \ {key}, ignore_missing_crl_check)
             ELSE IF ignore_missing_crl_check /\ key = "CERT_NOT_REVOKED"
                     /\ value = "None"
             THEN EvaluateItems(results, keys \ {key}, ignore_missing_crl_check)
             ELSE FALSE

\* the loop without the "value is None" test
RECURSIVE EvaluateItemsAnyRevoked(_, _, _)
EvaluateItemsAnyRevoked(results, keys, ignore_missing_crl_check) ==
    IF keys = {} THEN TRUE
    ELSE LET key == CHOOSE k \in keys : TRUE
             value == results[key]
         IN  IF value = "True"
             THEN EvaluateItemsAnyRevoked(results, keys \ {key},
                                          ignore_missing_crl_check)
             ELSE IF ignore_missing_crl_check /\ key = "CERT_NOT_REVOKED"
             THEN EvaluateItemsAnyRevoked(results, keys \ {key},
                                          ignore_missing_crl_check)
             ELSE FALSE

_evaluate_verification_results_AnyRevoked(verification_results, ignore) ==
    IF verification_results = None THEN FALSE
    ELSE EvaluateItemsAnyRevoked(verification_results[1],
                                 DOMAIN verification_results[1], ignore)

\* X509Certificate._evaluate_verification_results
_evaluate_verification_results(verification_results, ignore_missing_crl_check) ==
    IF verification_results = None THEN FALSE
    ELSE EvaluateItems(verification_results[1], DOMAIN verification_results[1],
                       ignore_missing_crl_check)

----------------------------------------------------------------------------
(* The steps of a query, for interleavings with an external writer *)

\* "if self.verification_results is None: return None": the first read of
\* the field
results_is_None(self) == self.verification_results = None

\* "results = dict(self.verification_results)": the second read of the field
\* and the copy; dict() of a dict runs without releasing the interpreter
\* lock, so the copy holds the map of one moment; dict(None) is a TypeError
dict_copy(verification_results) ==
    IF verification_results = None THEN [err |-> "TypeError", val |-> None]
    ELSE [err |-> "none", val |-> verification_results]

\* the statements after the copy, reading the shared field again in place of
\* the local dict
results_from_copy_ReadsField(self, cache, date, results) ==
    verification_results_at_date(self, cache, date)

\* the statements after the copy, run on the local dict results: the two
\* entries are written into it and it is returned
results_from_copy(self, cache, date, results) ==
    verification_results_at_date(
        [self EXCEPT !.verification_results = Some(results)], cache, date)

\* verification_results[key] = value by another thread, on the dict itself
write_in_place(self, key, value) ==
    [self EXCEPT !.verification_results = Some(DictSet(@[1], key, value))]

----------------------------------------------------------------------------
(* Inputs *)

\* longest extension list handed to the constructor
MaxExts == 2

\* extension OIDs of the inputs: three registered ones and one that is not
InputOIDs == {"2.5.29.15", "2.5.29.19", "1.2.840.113635.100.6.1.2", "1.3.6.1.4.1.99999.1"}

ExtensionInputs == [extnID : InputOIDs, critical : {0, 1}, extnValue : Payloads]

ExtensionLists == UNION {[1..n -> ExtensionInputs] : n \in 0..MaxExts}

Issuer == "CN=Test CA, O=Test"

OtherIssuer == "CN=Other CA, O=Test"

SerialNumber == 4660

\* YYMMDDHHMMSSZ and YYYYMMDDHHMM[SS]Z strings
UtcTimeString(yy, mo, d, h, mi, sec) ==
    Fmt2(yy) \o Fmt2(mo) \o Fmt2(d) \o Fmt2(h) \o Fmt2(mi) \o Fmt2(sec) \o <<"Z">>

GeneralTimeString(y, mo, d, h, mi, sec) ==
    Fmt4(y) \o Fmt2(mo) \o Fmt2(d) \o Fmt2(h) \o Fmt2(mi) \o Fmt2(sec) \o <<"Z">>

\* 2020-01-05 00:00:00 .. 2020-01-15 00:00:00, short-year form
ValidityUtc ==
    [notBefore |-> TimeComponent("utcTime", UtcTimeString(20, 1, 5, 0, 0, 0)),
     notAfter |-> TimeComponent("utcTime", UtcTimeString(20, 1, 15, 0, 0, 0))]

\* the same window in long-year form, the seconds of notBefore omitted
ValidityGeneral ==
    [notBefore |-> TimeComponent("generalTime",
                      Fmt4(2020) \o Fmt2(1) \o Fmt2(5) \o Fmt2(0) \o Fmt2(0) \o <<"Z">>),
     notAfter |-> TimeComponent("generalTime", GeneralTimeString(2020, 1, 15, 0, 0, 0))]

TBSCertificate(validity, extensions) ==
    [serialNumber |-> SerialNumber, issuer |-> Issuer,
     validity |-> validity, extensions |-> extensions]

\* certificates of the assembly specification: every extension list
AssemblyInputs ==
    {[tbsCertificate |-> TBSCertificate(v, exts)] :
        v \in {ValidityUtc, ValidityGeneral},
        exts \in {None} \cup {Some(l) : l \in ExtensionLists}}

\* certificates of the validity specification: one that is accepted and one
\* that is rejected
ValidityInputs ==
    {[tbsCertificate |->
        TBSCertificate(ValidityUtc,
                       Some(<<[extnID |-> "2.5.29.15", critical |-> 1,
                               extnValue |-> "wellformed"]>>))],
     [tbsCertificate |->
        TBSCertificate(ValidityUtc,
                       Some(<<[extnID |-> "1.3.6.1.4.1.99999.1", critical |-> 1,
                               extnValue |-> "wellformed"]>>))]}

\* query dates: one second before, at, and one second after each end of the
\* validity window and the revocation date
QueryDates ==
    {<<2020, 1, 4, 23, 59, 59>>, <<2020, 1, 5, 0, 0, 0>>,
     <<2020, 1, 9, 23, 59, 59>>, <<2020, 1, 10, 0, 0, 0>>,
     <<2020, 1, 15, 0, 0, 0>>, <<2020, 1, 15, 0, 0, 1>>}

\* the revocation date the store can hold for the certificate: 2020-01-10
RevocationDate == GeneralTimeString(2020, 1, 10, 0, 0, 0)

\* and for the other certificate: 2019-06-01
OtherRevocationDate == GeneralTimeString(2019, 6, 1, 0, 0, 0)

CacheKeys == {<<Issuer, SerialNumber>>, <<OtherIssuer, SerialNumber>>}

\* what the store can hold for the certificate: nothing, an empty string, a date
CacheValues == {None, Some(<<>>), Some(RevocationDate)}

\* the store at the start: the other issuer's certificate is revoked
InitialCache ==
    [k \in CacheKeys |->
        IF k = <<OtherIssuer, SerialNumber>> THEN Some(OtherRevocationDate) ELSE None]

Tri == {"True", "False", "None"}

\* keys the external verifier may put in verification_results
BaseKeys == {"SIGNATURE_OK", "CERT_NOT_REVOKED"}

BaseMaps == UNION {[K -> Tri] : K \in SUBSET BaseKeys}

VerificationResults == {None} \cup {Some(m) : m \in BaseMaps}

\* distinguished names: a Name holds RDNSequences (name_part), an RDNSequence
\* holds RelativeDistinguishedNames (attr), each a nonempty SET OF
\* AttributeTypeAndValue in the order the decoder found them
MaxRdns == 2
MaxAttrs == 2

SeqsUpTo(S, n) == UNION {[1..k -> S] : k \in 0..n}

NameTypes ==
    {<<"2", ".", "5", ".", "4", ".", "3">>,
     <<"2", ".", "5", ".", "4", ".", "1", "0">>,
     <<"1", ".", "2", ".", "3">>}

NameValues == {<<"a">>, <<"b">>}

AttributeInputs == [type : NameTypes, value : NameValues]

RdnInputs == SeqsUpTo(AttributeInputs, MaxAttrs) \ {<<>>}

NameInputs == {<<rdnSequence>> : rdnSequence \in SeqsUpTo(RdnInputs, MaxRdns)}

\* bit strings as the decoder hands them over: tuples of 0 and 1
MaxBits == 10

BitStrings == SeqsUpTo({0, 1}, MaxBits)

\* Time components: a CHOICE name ("" when the component has no getName)
\* and the string it carries
TimeNames == {"utcTime", "generalTime", ""}

\* every two-digit year, followed by two month-to-second tails
ShortYearValues ==
    {Fmt2(yy) \o rest : yy \in 0..99,
                        rest \in {<<"0", "1", "0", "1", "1", "2", "0", "0", "0", "0", "Z">>,
                                  <<"1", "2", "3", "1", "2", "3", "5", "9", "5", "9", "Z">>}}

OtherTimeValues ==
    {<<"2", "0", "2", "0", "0", "1", "0", "5", "0", "0", "0", "0", "0", "0", "Z">>,
     <<"2", "0", "2", "0", "0", "1", "0", "5", "0", "0", "0", "0", "Z">>,
     <<"1", "9", "4", "9", "1", "2", "3", "1", "2", "3", "5", "9", "5", "9", "Z">>,
     <<"x", "0", "0", "1", "0", "1", "1", "2", "0", "0", "0", "0", "Z">>,
     <<"5">>,
     <<>>}

TimeInputs ==
    {TimeComponent(name, value) : name \in TimeNames,
                                  value \in ShortYearValues \cup OtherTimeValues}

\* date strings, field by field: well-formed fields and fields that are
\* non-numeric, padded, signed, out of range or cut short
YearFields ==
    {<<"2", "0", "2", "0">>,
     <<"2", "0", "x", "0">>}

MonthFields ==
    {<<"0", "1">>,
     <<"x", "1">>,
     <<" ", "1">>}

DayFields ==
    {<<"0", "5">>,
     <<"0", "x">>}

HourFields ==
    {<<"2", "3">>,
     <<"x", "0">>}

MinuteFields ==
    {<<"5", "9">>,
     <<"+", "5">>,
     <<"5", "x">>}

SecondFields ==
    {<<>>,
     <<"0", "0">>,
     <<"3", "0">>,
     <<"5", "9">>,
     <<"6", "0">>,
     <<"6", "1">>,
     <<"9", "9">>,
     <<"5">>,
     <<" ", "5">>,
     <<"+", "5">>,
     <<"-", "5">>,
     <<"-", "0">>,
     <<"5", "x">>,
     <<"x", "x">>}

Suffixes ==
    {<<>>,
     <<"Z">>}

FieldDates ==
    {y \o mo \o d \o h \o mi \o sec \o z :
        y \in YearFields, mo \in MonthFields, d \in DayFields, h \in HourFields,
        mi \in MinuteFields, sec \in SecondFields, z \in Suffixes}

\* a well-formed date string cut after every length
FullDate == <<"2", "0", "2", "0", "0", "1", "0", "5", "2", "3", "5", "9", "3", "0", "Z">>

CutDates == {SubSeq(FullDate, 1, n) : n \in 0..Len(FullDate)}

DateInputs == FieldDates \cup CutDates

----------------------------------------------------------------------------
(* Operations *)

NoCall == [op |-> "none"]

\* a call and what it returned; again tells that the call before it was the
\* same call with the same arguments and nothing was written in between
Query(op, date, ignore, results, value, lookups, err) ==
    [op |-> op, date |-> date, ignore |-> ignore, results |-> results,
     value |-> value, lookups |-> lookups, err |-> err,
     again |-> /\ op \in {"valid_at_date", "verification_results_at_date"}
               /\ last.op = op
               /\ last.date = date
               /\ last.ignore = ignore]

self == x509[1]

Init ==
    /\ x509 = None
    /\ raised = "none"
    /\ input = None
    /\ crl_cache = InitialCache
    /\ last = NoCall
    /\ written = None

\* no constructor has been called yet
Unconstructed == input = None /\ last = NoCall

\* a caller constructs one Extension on its own; r is what the constructor does
ExtensionReturns(extension, r) ==
    /\ last' = [op |-> "Extension", extension |-> extension, err |-> r.err,
                obj |-> IF r.err = "none" THEN Some(r.obj) ELSE None]
    /\ UNCHANGED <<x509, raised, input, crl_cache, written>>

Extension(extension) ==
    /\ Unconstructed
    /\ ExtensionReturns(extension, Extension_init(extension))

\* a caller constructs the certificate object
X509CertificateReturns(certificate, r) ==
    /\ x509' = r.obj
    /\ raised' = r.err
    /\ input' = Some(certificate)
    /\ last' = NoCall
    /\ UNCHANGED <<crl_cache, written>>

X509Certificate(certificate) ==
    /\ Unconstructed
    /\ X509CertificateReturns(certificate, X509Certificate_init(certificate))

\* the external verifier assigns verification_results
VerifierWrites(results) ==
    /\ x509 # None
    /\ x509' = Some([self EXCEPT !.verification_results = results])
    /\ written' = results
    /\ last' = NoCall
    /\ UNCHANGED <<raised, input, crl_cache>>

\* the certificate manager switches revocation checking on or off
SetCheckCrl(flag) ==
    /\ x509 # None
    /\ self.check_crl # flag
    /\ x509' = Some([self EXCEPT !.check_crl = flag])
    /\ last' = NoCall
    /\ UNCHANGED <<raised, input, crl_cache, written>>

\* the CRL store learns or forgets the revocation date of the certificate
CacheUpdate(value) ==
    /\ crl_cache[<<Issuer, SerialNumber>>] # value
    /\ crl_cache' = [crl_cache EXCEPT ![<<Issuer, SerialNumber>>] = value]
    /\ last' = NoCall
    /\ UNCHANGED <<x509, raised, input, written>>

is_verified(ignore_missing_crl_check) ==
    /\ x509 # None
    /\ last' = Query("is_verified", None, ignore_missing_crl_check,
                     self.verification_results,
                     PyBool(_evaluate_verification_results(
                                self.verification_results,
                                ignore_missing_crl_check)),
                     0, "none")
    /\ UNCHANGED <<x509, raised, input, crl_cache, written>>

\* r is what verification_results_at_date(date) does on the object
VerificationResultsAtDateReturns(date, r) ==
    /\ last' = Query("verification_results_at_date", Some(date), FALSE,
                     r.val, "None", r.lookups, r.err)
    /\ x509' = Some([self EXCEPT !.verification_results = r.field])
    /\ UNCHANGED <<raised, input, crl_cache, written>>

VerificationResultsAtDate(date) ==
    /\ x509 # None
    /\ VerificationResultsAtDateReturns(
           date, verification_results_at_date(self, crl_cache, date))

\* r is what the call of verification_results_at_date(date) does
ValidAtDateReturns(date, ignore_missing_crl_check, r) ==
    /\ last' = Query("valid_at_date", Some(date), ignore_missing_crl_check,
                     r.val,
                     IF r.err # "none" THEN "None"
                     ELSE PyBool(_evaluate_verification_results(
                                     r.val, ignore_missing_crl_check)),
                     r.lookups, r.err)
    /\ x509' = Some([self EXCEPT !.verification_results = r.field])
    /\ UNCHANGED <<raised, input, crl_cache, written>>

valid_at_date(date, ignore_missing_crl_check) ==
    /\ x509 # None
    /\ ValidAtDateReturns(date, ignore_missing_crl_check,
                          verification_results_at_date(self, crl_cache, date))

TimeValidityAtDateReturns(date, r) ==
    /\ last' = Query("time_validity_at_date", Some(date), FALSE, None,
                     r.val, 0, r.err)
    /\ UNCHANGED <<x509, raised, input, crl_cache, written>>

TimeValidityAtDate(date) ==
    /\ x509 # None
    /\ TimeValidityAtDateReturns(date, time_validity_at_date(self, date))

CrlValidityAtDateReturns(date, r) ==
    /\ last' = Query("crl_validity_at_date", Some(date), FALSE, None,
                     r.val, r.lookups, r.err)
    /\ UNCHANGED <<x509, raised, input, crl_cache, written>>

CrlValidityAtDate(date) ==
    /\ x509 # None
    /\ CrlValidityAtDateReturns(date, crl_validity_at_date(self, crl_cache, date))

\* Assembly: one constructor call, of an Extension or of a certificate
NextAssembly ==
    \/ Unconstructed /\ \E extension \in ExtensionInputs : Extension(extension)
    \/ Unconstructed /\ \E certificate \in AssemblyInputs : X509Certificate(certificate)

SpecAssembly == Init /\ [][NextAssembly]_vars

\* Validity: a certificate is constructed, then written to and queried
Next ==
    \/ Unconstructed /\ \E certificate \in ValidityInputs : X509Certificate(certificate)
    \/ \E results \in VerificationResults : VerifierWrites(results)
    \/ \E flag \in BOOLEAN : SetCheckCrl(flag)
    \/ \E value \in CacheValues : CacheUpdate(value)
    \/ \E ignore \in BOOLEAN : is_verified(ignore)
    \/ \E date \in QueryDates : \E ignore \in BOOLEAN : valid_at_date(date, ignore)
    \/ \E date \in QueryDates : VerificationResultsAtDate(date)
    \/ \E date \in QueryDates : TimeValidityAtDate(date)
    \/ \E date \in QueryDates : CrlValidityAtDate(date)

Spec == Init /\ [][Next]_vars

\* str(Name(name))
NameReturns(name, str) ==
    /\ last' = [op |-> "Name", name |-> name, str |-> str]
    /\ UNCHANGED <<x509, raised, input, crl_cache, written>>

Name(name) ==
    /\ Unconstructed
    /\ NameReturns(name, Name_str(Name_init(name)))

\* Names: one distinguished name is built and rendered
NextName ==
    Unconstructed /\ \E name \in NameInputs : Name(name)

SpecName == Init /\ [][NextName]_vars

\* a flag class built from a bit string
FlagsReturn(class, asn1, r) ==
    /\ last' = [op |-> class, bits |-> asn1, err |-> r.err, flags |-> r.flags]
    /\ UNCHANGED <<x509, raised, input, crl_cache, written>>

KeyUsageExt(asn1) ==
    /\ Unconstructed
    /\ FlagsReturn("KeyUsageExt", asn1, KeyUsageExt_init(asn1))

Reasons(asn1) ==
    /\ Unconstructed
    /\ FlagsReturn("Reasons", asn1, Reasons_init(asn1))

\* Flags: one KeyUsageExt or one Reasons is built
NextFlags ==
    \/ Unconstructed /\ \E asn1 \in BitStrings : KeyUsageExt(asn1)
    \/ Unconstructed /\ \E asn1 \in BitStrings : Reasons(asn1)

SpecFlags == Init /\ [][NextFlags]_vars

\* ValidityInterval._getGeneralizedTime(timeComponent)
GetGeneralizedTimeReturns(timeComponent, r) ==
    /\ last' = [op |-> "_getGeneralizedTime", timeComponent |-> timeComponent,
                err |-> r.err, val |-> r.val]
    /\ UNCHANGED <<x509, raised, input, crl_cache, written>>

GetGeneralizedTime(timeComponent) ==
    /\ Unconstructed
    /\ GetGeneralizedTimeReturns(timeComponent, _getGeneralizedTime(timeComponent))

\* ValidityInterval.parse_date(date)
ParseDateReturns(date, r) ==
    /\ last' = [op |-> "parse_date", date |-> date, err |-> r.err, dt |-> r.dt]
    /\ UNCHANGED <<x509, raised, input, crl_cache, written>>

ParseDate(date) ==
    /\ Unconstructed
    /\ ParseDateReturns(date, parse_date(date))

\* Times: one time component is expanded or one date string is parsed
NextTime ==
    \/ Unconstructed /\ \E timeComponent \in TimeInputs : GetGeneralizedTime(timeComponent)
    \/ Unconstructed /\ \E date \in DateInputs : ParseDate(date)

SpecTime == Init /\ [][NextTime]_vars

\* a query in progress: pc is the place of its thread, results its local
\* dict, write the in-place write another thread made while it ran
Frame(op, date, ignore, pc, results, value, err, write) ==
    [op |-> op, date |-> date, ignore |-> ignore, pc |-> pc, results |-> results,
     value |-> value, err |-> err, write |-> write]

QueryOps == {"valid_at_date", "verification_results_at_date"}

Running == last # NoCall /\ last.pc \in {"checked", "copied"}

\* the query thread enters verification_results_at_date and tests the field
QueryChecks(op, date, ignore_missing_crl_check) ==
    /\ x509 # None
    /\ last = NoCall
    /\ last' = IF results_is_None(self)
               THEN Frame(op, date, ignore_missing_crl_check, "returned", None,
                          IF op = "valid_at_date"
                          THEN PyBool(_evaluate_verification_results(
                                          None, ignore_missing_crl_check))
                          ELSE "None",
                          "none", None)
               ELSE Frame(op, date, ignore_missing_crl_check, "checked", None,
                          "None", "none", None)
    /\ UNCHANGED <<x509, raised, input, crl_cache, written>>

\* the query thread copies the field
QueryCopiesReturns(r) ==
    /\ last' = [last EXCEPT !.pc = IF r.err = "none" THEN "copied" ELSE "returned",
                            !.results = r.val,
                            !.err = r.err]
    /\ UNCHANGED <<x509, raised, input, crl_cache, written>>

QueryCopies ==
    /\ last # NoCall
    /\ last.pc = "checked"
    /\ QueryCopiesReturns(dict_copy(self.verification_results))

\* the query thread fills its dict in, evaluates it if asked, and returns
QueryReturnsWith(r) ==
    /\ last' = [last EXCEPT !.pc = "returned",
                            !.results = r.val,
                            !.err = r.err,
                            !.value = IF last.op = "valid_at_date" /\ r.err = "none"
                                      THEN PyBool(_evaluate_verification_results(
                                                      r.val, last.ignore))
                                      ELSE "None"]
    /\ UNCHANGED <<x509, raised, input, crl_cache, written>>

QueryReturns ==
    /\ last # NoCall
    /\ last.pc = "copied"
    /\ QueryReturnsWith(results_from_copy(self, crl_cache, last.date, last.results[1]))

\* another thread writes one entry of the shared dict while the query runs
WriterWrites(key, value) ==
    /\ Running
    /\ last.write = None
    /\ self.verification_results # None
    /\ x509' = Some(write_in_place(self, key, value))
    /\ last' = [last EXCEPT !.write =
                    Some([before |-> self.verification_results[1],
                          after |-> write_in_place(self, key, value).verification_results[1],
                          at |-> last.pc])]
    /\ UNCHANGED <<raised, input, crl_cache, written>>

\* Interleavings: the certificate is built and published, then a query runs
\* step by step while another thread may write into verification_results
NextThreads ==
    \/ Unconstructed /\ \E certificate \in ValidityInputs : X509Certificate(certificate)
    \/ last = NoCall /\ \E results \in VerificationResults : VerifierWrites(results)
    \/ last = NoCall /\ \E value \in CacheValues : CacheUpdate(value)
    \/ \E op \in QueryOps : \E date \in QueryDates : \E ignore \in BOOLEAN :
           QueryChecks(op, date, ignore)
    \/ QueryCopies
    \/ QueryReturns
    \/ \E key \in BaseKeys : \E value \in Tri : WriterWrites(key, value)

SpecThreads == Init /\ [][NextThreads]_vars

----------------------------------------------------------------------------
(* Properties of the assembly *)

Registered(oid) == oid \in DOMAIN _extensionDecoders

\* the extension list handed to the certificate constructor ([] if absent)
InputExtensions ==
    IF input = None \/ input[1].tbsCertificate.extensions = None THEN <<>>
    ELSE input[1].tbsCertificate.extensions[1]

\* an Extension object that kept the raw extnValue bytes and got no ext_type
KeptRaw(obj, extension) ==
    /\ obj.value = [typed |-> FALSE, bytes |-> extension.extnValue]
    /\ obj.ext_type = "None"

\* C1: constructing an Extension whose OID is not in the decoder registry
\* fails with an error when the extension is critical, and succeeds with the
\* raw extnValue bytes as value and no ext_type when it is not critical.
C1_UnknownOid ==
    (last.op = "Extension" /\ ~Registered(last.extension.extnID)) =>
        IF last.extension.critical # 0
        THEN last.err = "CertificateError" /\ last.obj = None
        ELSE /\ last.err = "none"
             /\ last.obj # None
             /\ KeptRaw(last.obj[1], last.extension)

C1_Witness ==
    /\ last.op = "Extension"
    /\ ~Registered(last.extension.extnID)
    /\ last.extension.critical # 0
    /\ last.err = "CertificateError"

\* C2: constructing an Extension whose OID is registered and whose decode or
\* parse step fails, whatever the failure: when the extension is critical the
\* failure reaches the caller; when it is not, construction succeeds with the
\* raw bytes as value and no ext_type.
C2_RegisteredOidFailure ==
    (/\ last.op = "Extension"
     /\ Registered(last.extension.extnID)
     /\ last.extension.extnValue # "wellformed") =>
        IF last.extension.critical # 0
        THEN last.err # "none" /\ last.obj = None
        ELSE /\ last.err = "none"
             /\ last.obj # None
             /\ KeptRaw(last.obj[1], last.extension)

\* an extension that must make the construction of the certificate fail: a
\* critical one whose OID is unknown or whose decode or parse step fails
Fatal(extension) ==
    /\ extension.critical # 0
    /\ \/ ~Registered(extension.extnID)
       \/ extension.extnValue # "wellformed"

\* C3: construction of the certificate is all or nothing: a fatal extension
\* at any position makes the constructor raise and leaves no object, and a
\* constructor that returns has built one Extension per input extension.
C3_AllOrNothing ==
    input # None =>
        /\ (\E i \in 1..Len(InputExtensions) : Fatal(InputExtensions[i])) =>
               (x509 = None /\ raised # "none")
        /\ (raised # "none") <=> (x509 = None)
        /\ x509 # None =>
               /\ Len(self.tbsCertificate.extensions) = Len(InputExtensions)
               /\ \A i \in 1..Len(InputExtensions) :
                      self.tbsCertificate.extensions[i].id = InputExtensions[i].extnID
               /\ DOMAIN self.tbsCertificate.slots = knownExtensions
               /\ self.verification_results = None
               /\ self.check_crl

\* the last of several extensions is fatal, the ones before it are not
C3_Witness ==
    /\ input # None
    /\ Len(InputExtensions) > 1
    /\ Fatal(InputExtensions[Len(InputExtensions)])
    /\ \A i \in 1..(Len(InputExtensions) - 1) :
           Extension_init(InputExtensions[i]).err = "none"
    /\ x509 = None
    /\ raised # "none"

----------------------------------------------------------------------------
(* Properties of the validity evaluation *)

\* the last call built a result map: verification_results_at_date, directly
\* or from valid_at_date, returned without an exception
BuiltResults ==
    /\ last.op \in {"verification_results_at_date", "valid_at_date"}
    /\ last.err = "none"

CertKey == <<Issuer, SerialNumber>>

\* the store holds no revocation date for the certificate
NotInStore == crl_cache[CertKey] = None \/ crl_cache[CertKey] = Some(<<>>)

\* C4 as stated: with check_crl set, a base map present and no revocation
\* date in the store, the CERT_NOT_REVOKED entry of the result is None.
C4_UnsetWhenNotFound ==
    (BuiltResults /\ self.check_crl /\ written # None /\ NotInStore) =>
        (last.results # None /\ last.results[1]["CERT_NOT_REVOKED"] = "None")

\* C4 amended: with check_crl set, a base map present and no revocation date
\* in the store, the CERT_NOT_REVOKED entry of the result is True.
C4_TrueWhenNotFound ==
    (BuiltResults /\ self.check_crl /\ written # None /\ NotInStore) =>
        (last.results # None /\ last.results[1]["CERT_NOT_REVOKED"] = "True")

C4_Witness ==
    /\ BuiltResults
    /\ self.check_crl
    /\ written # None
    /\ crl_cache[CertKey] = None
    /\ last.results[1]["CERT_NOT_REVOKED"] = "True"

\* every entry of the map is True, an entry CERT_NOT_REVOKED = None being
\* let through when the caller asked to ignore the missing CRL check
Passes(results, ignore) ==
    /\ results # None
    /\ \A k \in DOMAIN results[1] :
           \/ results[1][k] = "True"
           \/ k = "CERT_NOT_REVOKED" /\ results[1][k] = "None" /\ ignore

\* C5: is_verified and valid_at_date answer False when the base map is
\* absent, and otherwise True exactly when every entry of the evaluated map
\* is True, a None CERT_NOT_REVOKED being tolerated only with
\* ignore_missing_crl_check; nothing else is tolerated.
C5_Aggregate ==
    (last.op \in {"is_verified", "valid_at_date"} /\ last.err = "none") =>
        /\ last.value = PyBool(Passes(last.results, last.ignore))
        /\ written = None => last.value = "False"
        /\ (last.op = "is_verified") => last.results = written
        /\ (last.results # None /\ last.value = "True") =>
               \A k \in DOMAIN last.results[1] :
                   /\ last.results[1][k] # "False"
                   /\ last.results[1][k] = "None" =>
                          (k = "CERT_NOT_REVOKED" /\ last.ignore)

\* a pass that needed the caller's flag
C5_Witness ==
    /\ last.op = "valid_at_date"
    /\ last.ignore
    /\ last.results # None
    /\ last.results[1]["CERT_NOT_REVOKED"] = "None"
    /\ last.value = "True"

\* seconds since the start of the month; all dates of the model are in
\* January 2020
SecondsInMonth(dt) == ((dt[3] * 24 + dt[4]) * 60 + dt[5]) * 60 + dt[6]

ValidFrom == SecondsInMonth(get_valid_from_as_datetime(self.tbsCertificate.validity).dt)

ValidTo == SecondsInMonth(get_valid_to_as_datetime(self.tbsCertificate.validity).dt)

\* what the last call said about time validity, "n/a" if it said nothing
TimeValidityAnswer ==
    IF last.op = "time_validity_at_date" /\ last.err = "none" THEN last.value
    ELSE IF BuiltResults /\ last.results # None
    THEN last.results[1]["CERT_TIME_VALIDITY_OK"]
    ELSE "n/a"

\* C6: CERT_TIME_VALIDITY_OK at a date is True exactly when
\* valid_from <= date <= valid_to, both ends included: True at valid_from and
\* at valid_to, False one second before valid_from and one second after
\* valid_to.
C6_TimeValidity ==
    TimeValidityAnswer # "n/a" =>
        LET date == SecondsInMonth(last.date[1])
        IN  /\ TimeValidityAnswer = PyBool(ValidFrom <= date /\ date <= ValidTo)
            /\ date \in {ValidFrom, ValidTo} => TimeValidityAnswer = "True"
            /\ date \in {ValidFrom - 1, ValidTo + 1} => TimeValidityAnswer = "False"

C6_Witness ==
    /\ last.op = "time_validity_at_date"
    /\ SecondsInMonth(last.date[1]) = ValidTo
    /\ last.value = "True"

\* C7: a validity query asks the revocation store only when check_crl is set;
\* with check_crl cleared the store is not asked and the CERT_NOT_REVOKED
\* entry of the result is None.
C7_LookupOnlyIfCheckCrl ==
    (last.op \in {"is_verified", "valid_at_date", "verification_results_at_date",
                  "time_validity_at_date"}) =>
        /\ last.lookups > 0 => self.check_crl
        /\ ~self.check_crl =>
               /\ last.lookups = 0
               /\ (BuiltResults /\ last.results # None) =>
                      last.results[1]["CERT_NOT_REVOKED"] = "None"

\* the store knows a revocation date, and it is not asked
C7_Witness ==
    /\ last.op = "valid_at_date"
    /\ ~self.check_crl
    /\ crl_cache[CertKey] = Some(RevocationDate)
    /\ last.results # None
    /\ last.results[1]["CERT_NOT_REVOKED"] = "None"
    /\ last.lookups = 0

\* C8: verification_results is None after construction and no method of the
\* certificate writes it: it always is what the external verifier last
\* assigned.
C8_NeverSelfPopulated ==
    x509 # None => self.verification_results = written

\* a query computed a map that differs from the base, the field kept the base
C8_Witness ==
    /\ BuiltResults
    /\ last.results # None
    /\ last.results # written
    /\ self.verification_results = written

\* C9: in the map verification_results_at_date returns, every key other than
\* CERT_TIME_VALIDITY_OK and CERT_NOT_REVOKED has the value of the base map,
\* and the keys are those of the base map plus these two.
C9_OtherKeysCopied ==
    (BuiltResults /\ last.results # None) =>
        /\ written # None
        /\ DOMAIN last.results[1] =
               (DOMAIN written[1]) \cup {"CERT_TIME_VALIDITY_OK", "CERT_NOT_REVOKED"}
        /\ \A k \in (DOMAIN written[1]) \ {"CERT_TIME_VALIDITY_OK", "CERT_NOT_REVOKED"} :
               last.results[1][k] = written[1][k]

\* a base entry is copied, another is replaced
C9_Witness ==
    /\ last.op = "verification_results_at_date"
    /\ last.results # None
    /\ DOMAIN written[1] = {"SIGNATURE_OK", "CERT_NOT_REVOKED"}
    /\ written[1]["SIGNATURE_OK"] = "False"
    /\ last.results[1]["SIGNATURE_OK"] = "False"
    /\ written[1]["CERT_NOT_REVOKED"] = "False"
    /\ last.results[1]["CERT_NOT_REVOKED"] = "True"

\* C10: a validity query repeated at the same date, with no write to
\* verification_results, check_crl or the store in between, returns the same
\* result map and the same verdict.
C10_SameResultTwice ==
    [][(last'.op \in {"verification_results_at_date", "valid_at_date"}
        /\ last'.again) =>
           (/\ last'.results = last.results
            /\ last'.value = last.value
            /\ last'.err = last.err)]_vars

C10_Witness ==
    /\ last.op = "valid_at_date"
    /\ last.again
    /\ last.results # None
    /\ last.value = "True"

----------------------------------------------------------------------------
(* Properties of Name *)

\* every (type, value) pair of a name, RDN by RDN
RECURSIVE Flatten(_)
Flatten(seqs) ==
    IF Len(seqs) = 0 THEN <<>> ELSE Head(seqs) \o Flatten(Tail(seqs))

Pairs(name) == Flatten(Flatten(name))

Count(list, x) == Cardinality({i \in 1..Len(list) : list[i] = x})

\* the two names carry the same multiset of (type, value) pairs
SamePairs(a, b) ==
    \A pair \in AttributeInputs : Count(Pairs(a), pair) = Count(Pairs(b), pair)

\* C11: any two names whose RDN sequences carry the same multiset of
\* (type, value) attribute pairs have the same string form.
C11_SamePairsSameString ==
    last.op = "Name" =>
        \A other \in NameInputs :
            SamePairs(other, last.name) => Name_str(Name_init(other)) = last.str

\* a name with a two-valued RDN has been rendered
C11_Witness ==
    /\ last.op = "Name"
    /\ \E i \in 1..Len(last.name[1]) : Len(last.name[1][i]) > 1

----------------------------------------------------------------------------
(* Properties of the extension slots *)

\* the positions of the built extension list whose kind is n
Carrying(extensions, n) == {i \in 1..Len(extensions) : extensions[i].ext_type = n}

Last(positions) == CHOOSE i \in positions : \A j \in positions : j <= i

\* C12: after a successful construction the certificate has one slot per
\* known extension kind; a slot is None exactly when no extension of the list
\* carries that kind, and otherwise holds the last extension of the list
\* that does.
C12_Slots ==
    x509 # None =>
        LET cert == self.tbsCertificate
        IN  /\ DOMAIN cert.slots = knownExtensions
            /\ \A n \in knownExtensions :
                   LET positions == Carrying(cert.extensions, n)
                   IN  IF positions = {}
                       THEN cert.slots[n] = None
                       ELSE cert.slots[n] = Some(cert.extensions[Last(positions)])

\* a certificate holding two different extensions of one kind has been built
C12_Witness ==
    /\ x509 # None
    /\ \E n \in knownExtensions :
           LET positions == Carrying(self.tbsCertificate.extensions, n)
           IN  \E i, j \in positions :
                   /\ i < j
                   /\ self.tbsCertificate.extensions[i] # self.tbsCertificate.extensions[j]

----------------------------------------------------------------------------
(* Properties of the bit-string flags *)

FlagNames(class) == IF class = "KeyUsageExt" THEN KeyUsageFlags ELSE ReasonsFlags

\* C13: for a bit string of any length, building KeyUsageExt or Reasons does
\* not fail, and flag i (0..8) is true exactly when the bit string has a
\* position i and the bit there is 1.
C13_Flags ==
    last.op \in {"KeyUsageExt", "Reasons"} =>
        /\ last.err = "none"
        /\ \A i \in 0..8 :
               last.flags[FlagNames(last.op)[i + 1]]
                   = (i < Len(last.bits) /\ last.bits[i + 1] = 1)

\* the three-bit string [1, 0, 1] has been parsed as a key usage
C13_Witness ==
    /\ last.op = "KeyUsageExt"
    /\ last.bits = <<1, 0, 1>>
    /\ last.flags["digitalSignature"]
    /\ last.flags["keyEncipherment"]

----------------------------------------------------------------------------
(* Properties of the time strings *)

\* the component starts with a two-digit year
ShortYear(timeComponent) ==
    /\ timeComponent.name # "generalTime"
    /\ Len(timeComponent.value) >= 2
    /\ IsDigit(timeComponent.value[1])
    /\ IsDigit(timeComponent.value[2])

\* the number written by the first n characters of s, all of them digits
Number(s, n) == DigitsVal(SubSeq(s, 1, n), n)

\* C14: a short-year value with two-digit year yy comes back with "19" in
\* front if yy >= 50 and with "20" otherwise, so that the year of the result
\* lies in 1950..2049; a generalTime value comes back unchanged.
C14_Expansion ==
    last.op = "_getGeneralizedTime" =>
        LET value == last.timeComponent.value
        IN  /\ last.timeComponent.name = "generalTime" =>
                   last.err = "none" /\ last.val = value
            /\ ShortYear(last.timeComponent) =>
                   /\ last.err = "none"
                   /\ last.val = (IF Number(value, 2) >= 50 THEN <<"1", "9">>
                                  ELSE <<"2", "0">>) \o value
                   /\ Number(last.val, 4) \in 1950..2049

\* the value "500101120000Z" has been expanded to the year 1950
C14_Witness ==
    /\ last.op = "_getGeneralizedTime"
    /\ last.timeComponent.name = "utcTime"
    /\ ShortYear(last.timeComponent)
    /\ Number(last.timeComponent.value, 2) = 50
    /\ last.err = "none"
    /\ Number(last.val, 4) = 1950

\* the fields of a date string by position
YearOf(date) == Slice(date, 0, 4)
MonthOf(date) == Slice(date, 4, 6)
DayOf(date) == Slice(date, 6, 8)
HourOf(date) == Slice(date, 8, 10)
MinuteOf(date) == Slice(date, 10, 12)
SecondOf(date) == Slice(date, 12, 14)

UpToMinute(date) == <<YearOf(date), MonthOf(date), DayOf(date), HourOf(date), MinuteOf(date)>>

\* the first twelve characters are digits that write a date and a time of day
ValidUpToMinute(date) ==
    /\ Len(date) >= 12
    /\ AllDigits(SubSeq(date, 1, 12))
    /\ Datetime(Number(YearOf(date), 4), Number(MonthOf(date), 2),
                Number(DayOf(date), 2), Number(HourOf(date), 2),
                Number(MinuteOf(date), 2), 0).err = "none"

TwoDigits(field) == Len(field) = 2 /\ AllDigits(field)

\* C15: a date string that is valid up to the minute and whose seconds field
\* is two digits above 59 parses, with second = 59; no parse returns a second
\* outside 0..59.
C15_SecondsClamped ==
    last.op = "parse_date" =>
        /\ (ValidUpToMinute(last.date)
              /\ TwoDigits(SecondOf(last.date))
              /\ Number(SecondOf(last.date), 2) > 59)
               => (last.err = "none" /\ last.dt[6] = 59)
        /\ last.err = "none" => last.dt[6] \in 0..59

\* a date string with the seconds field "61" has been parsed
C15_Witness ==
    /\ last.op = "parse_date"
    /\ ValidUpToMinute(last.date)
    /\ SecondOf(last.date) = <<"6", "1">>
    /\ last.err = "none"
    /\ last.dt[6] = 59

\* C16: a date string that is valid up to the minute and whose seconds field
\* is absent or is not a two-digit decimal number parses, with second = 0.
C16_SecondsDefaulted ==
    last.op = "parse_date" =>
        ((ValidUpToMinute(last.date) /\ ~TwoDigits(SecondOf(last.date)))
            => (last.err = "none" /\ last.dt[6] = 0))

\* a component is missing, or holds a character that no numeral holds
NonNumeric(field) ==
    \/ Len(field) = 0
    \/ \E i \in 1..Len(field) : ~IsDigit(field[i]) /\ field[i] \notin {" ", "+", "-"}

\* C17: parse_date raises whenever the year, month, day, hour or minute of
\* the date string is missing or non-numeric; when it returns, each of these
\* five components of the result is the number its field writes, so none of
\* them has been replaced by a default.
C17_OnlySecondsDefaulted ==
    last.op = "parse_date" =>
        LET fields == UpToMinute(last.date)
        IN  /\ (\E i \in 1..5 : NonNumeric(fields[i])) => last.err # "none"
            /\ last.err = "none" =>
                   \A i \in 1..5 : /\ PyInt(fields[i]).err = "none"
                                   /\ last.dt[i] = PyInt(fields[i]).val

\* a date string that ends after the hour has been rejected
C17_Witness ==
    /\ last.op = "parse_date"
    /\ last.date = SubSeq(FullDate, 1, 10)
    /\ NonNumeric(MinuteOf(last.date))
    /\ last.err = "ValueError"

----------------------------------------------------------------------------
(* Properties of a query interleaved with a writer *)

\* what the query returns when it runs alone on the map m
Alone(m) ==
    LET r == verification_results_at_date(
                 [self EXCEPT !.verification_results = Some(m)], crl_cache, last.date)
    IN  [results |-> r.val,
         value |-> IF last.op = "valid_at_date"
                   THEN PyBool(_evaluate_verification_results(r.val, last.ignore))
                   ELSE "None"]

Returned == [results |-> last.results, value |-> last.value]

\* C18: a query works on the copy of verification_results it takes at its
\* start: an in-place write by another thread after the copy does not show in
\* what the query returns, and what it returns is what it would return alone
\* on the map before the write or on the map after it.
C18_CopyIsolates ==
    (last # NoCall /\ "pc" \in DOMAIN last /\ last.pc = "returned" /\ last.write # None) =>
        LET w == last.write[1]
        IN  /\ last.err = "none"
            /\ w.at = "copied" => Returned = Alone(w.before)
            /\ Returned \in {Alone(w.before), Alone(w.after)}

\* a write that changes what a query returns has landed after the copy of a
\* query that has since returned
C18_Witness ==
    /\ last # NoCall /\ "pc" \in DOMAIN last /\ last.pc = "returned"
    /\ last.write # None
    /\ last.write[1].at = "copied"
    /\ Alone(last.write[1].before) # Alone(last.write[1].after)

----------------------------------------------------------------------------
(* Properties of revocation *)

\* C19: with check_crl switched off, valid_at_date without the ignore flag
\* answers False for every date and every verification_results, so the
\* certificate passes only under ignore_missing_crl_check.
C19_UncheckedNeedsIgnore ==
    (last.op = "valid_at_date" /\ x509 # None /\ ~self.check_crl) =>
        /\ ~last.ignore => last.value = "False"
        /\ last.value = "True" => last.ignore

\* with check_crl off and nothing else wrong, a query without the ignore flag
\* has answered False
C19_Witness ==
    /\ last.op = "valid_at_date"
    /\ x509 # None /\ ~self.check_crl
    /\ ~last.ignore
    /\ last.results # None
    /\ \A k \in DOMAIN last.results[1] :
           k # "CERT_NOT_REVOKED" => last.results[1][k] = "True"
    /\ last.results[1]["CERT_NOT_REVOKED"] = "None"
    /\ last.value = "False"

\* the store holds a revocation date for the certificate
Revoked == crl_cache[CertKey] = Some(RevocationDate)

\* that date as a datetime
R == parse_date(RevocationDate).dt

\* C20 as stated: when the store holds the revocation date R, valid_at_date
\* is False at every date >= R, whatever the ignore flag.
C20_RevokedNeverValid ==
    (last.op = "valid_at_date" /\ Revoked /\ DtGeq(last.date[1], R)) =>
        last.value = "False"

\* C20, amended: when the store holds the revocation date R,
\* crl_validity_at_date(d) is True exactly when d < R; an entry
\* CERT_NOT_REVOKED that is False at a date is False at every later date
\* while the store and check_crl stay as they are; and with check_crl on,
\* valid_at_date is False at every date >= R, whatever the ignore flag.
C20_RevokedFrom ==
    /\ (last.op = "crl_validity_at_date" /\ Revoked) =>
           /\ last.err = "none"
           /\ (last.value = "True") = DtLess(last.date[1], R)
           /\ (last.value = "False") = DtGeq(last.date[1], R)
    /\ (/\ last.op = "verification_results_at_date"
        /\ last.results # None
        /\ last.results[1]["CERT_NOT_REVOKED"] = "False") =>
           \A later \in QueryDates :
               DtGeq(later, last.date[1]) =>
                   verification_results_at_date(self, crl_cache, later)
                       .val[1]["CERT_NOT_REVOKED"] = "False"
    /\ (/\ last.op = "valid_at_date"
        /\ Revoked
        /\ self.check_crl
        /\ DtGeq(last.date[1], R)) =>
           last.value = "False"

\* a certificate with nothing else wrong has been refused at the very date of
\* its revocation, the ignore flag set
C20_Witness ==
    /\ last.op = "valid_at_date"
    /\ Revoked
    /\ self.check_crl
    /\ last.date[1] = R
    /\ last.ignore
    /\ last.results # None
    /\ \A k \in DOMAIN last.results[1] :
           k # "CERT_NOT_REVOKED" => last.results[1][k] = "True"
    /\ last.value = "False"

====
